---------------------------- MODULE Spec2Model ----------------------------
(***************************************************************************)
(* Model of src/main.py: the Scene object of an interactive OpenGL demo,   *)
(* its GLUT callbacks (display, keyboard, special, mouse, motion,          *)
(* mouse_wheel) and the part of the OpenGL state the callbacks change.     *)
(*                                                                         *)
(* Python floats are IEEE-754 doubles.  The fields that are stepped by     *)
(* 0.001, 0.1 or 0.01 (alpha, light_intensity, light_color, camera_pos)    *)
(* are modelled as doubles with round-to-nearest-even addition, because    *)
(* none of these steps is a binary fraction.  The fields stepped by 0.5    *)
(* or by integers (light_pos, camera_rot_x/y, camera_distance) are exact   *)
(* in doubles at the magnitudes explored and are kept as integers in the   *)
(* unit of their step.                                                     *)
(***************************************************************************)
EXTENDS Integers, Sequences, FiniteSets, TLC

(***************************************************************************)
(* IEEE-754 doubles.  A double is [s |-> 1 or -1, m |-> magnitude], the    *)
(* magnitude a natural number counting units of 2^-62, held in three       *)
(* limbs of 24 bits, least significant first.  Every double that occurs    *)
(* here is a multiple of 2^-62 below 2^10, and every exact sum or product  *)
(* formed from them is too, so the exact result is computed in limbs and   *)
(* then rounded once to 53 significant bits, ties to even.                 *)
(***************************************************************************)
Base == 2^24

BigLeq(a, b) ==
    IF a[3] # b[3] THEN a[3] < b[3]
    ELSE IF a[2] # b[2] THEN a[2] < b[2]
    ELSE a[1] <= b[1]

BigAdd(a, b) ==
    LET s0 == a[1] + b[1]
        s1 == a[2] + b[2] + (s0 \div Base)
        s2 == a[3] + b[3] + (s1 \div Base)
    IN  <<s0 % Base, s1 % Base, s2>>

\* a - b for a >= b
BigSub(a, b) ==
    LET d0 == a[1] - b[1]
        b0 == IF d0 < 0 THEN 1 ELSE 0
        d1 == a[2] - b[2] - b0
        b1 == IF d1 < 0 THEN 1 ELSE 0
    IN  <<d0 + b0 * Base, d1 + b1 * Base, a[3] - b[3] - b1>>

\* a * n for a small natural n (n < 2^7)
BigMulInt(a, n) ==
    LET p0 == a[1] * n
        p1 == a[2] * n + (p0 \div Base)
        p2 == a[3] * n + (p1 \div Base)
    IN  <<p0 % Base, p1 % Base, p2>>

RECURSIVE BitLen(_)
BitLen(n) == IF n = 0 THEN 0 ELSE 1 + BitLen(n \div 2)

BigBitLen(a) ==
    IF a[3] # 0 THEN 48 + BitLen(a[3])
    ELSE IF a[2] # 0 THEN 24 + BitLen(a[2])
    ELSE BitLen(a[1])

\* The magnitude rounded to 53 significant bits, ties to even.  The bits
\* dropped lie in the lowest limb (a magnitude has at most 72 bits).
RoundDouble(a) ==
    LET n == BigBitLen(a)
    IN  IF n <= 53 THEN a
        ELSE LET q    == 2^(n - 53)
                 r    == a[1] % q
                 t    == BigSub(a, <<r, 0, 0>>)
                 odd  == (a[1] \div q) % 2 = 1
                 up   == 2 * r > q \/ (2 * r = q /\ odd)
             IN  IF up THEN BigAdd(t, <<q, 0, 0>>) ELSE t

BigZero == <<0, 0, 0>>

\* The double of sign s and (already rounded) magnitude m; zero is +0.0.
Dbl(s, m) == [s |-> IF m = BigZero THEN 1 ELSE s, m |-> m]

\* x + y
FAdd(x, y) ==
    IF x.s = y.s THEN Dbl(x.s, RoundDouble(BigAdd(x.m, y.m)))
    ELSE IF BigLeq(y.m, x.m) THEN Dbl(x.s, RoundDouble(BigSub(x.m, y.m)))
    ELSE Dbl(y.s, RoundDouble(BigSub(y.m, x.m)))

\* -x   (also x * -1)
FNeg(x) == Dbl(-x.s, x.m)

\* x - y
FSub(x, y) == FAdd(x, FNeg(y))

\* n * x for an integer n, |n| < 2^7
FMulInt(n, x) ==
    Dbl(IF n < 0 THEN -x.s ELSE x.s,
        RoundDouble(BigMulInt(x.m, IF n < 0 THEN -n ELSE n)))

\* x <= y, x < y
FLeq(x, y) ==
    IF x.s # y.s THEN x.s < y.s
    ELSE IF x.s = 1 THEN BigLeq(x.m, y.m)
    ELSE BigLeq(y.m, x.m)

FLess(x, y) == FLeq(x, y) /\ x # y

\* Python's min(a, b) and max(a, b) on two floats
FMin(a, b) == IF FLess(b, a) THEN b ELSE a

FMax(a, b) == IF FLess(a, b) THEN b ELSE a

(***************************************************************************)
(* The float literals of the source, as doubles (value * 2^62 in limbs).   *)
(***************************************************************************)
F_0_0   == Dbl(1, BigZero)

\* 1.0 = 2^62
F_1_0   == Dbl(1, <<0, 0, 16384>>)

\* 0.5 = 2^61
F_0_5   == Dbl(1, <<0, 0, 8192>>)

\* 0.9 = 0x1CCCCCCCCCCCCD * 2^-53
F_0_9   == Dbl(1, <<10066432, 10066329, 14745>>)

\* 0.001 = 0x10624DD2F1A9FC * 2^-62
F_0_001 == Dbl(1, <<15837692, 6442450, 16>>)

\* 0.1 = 0x1999999999999A * 2^-56
F_0_1   == Dbl(1, <<6710912, 6710886, 1638>>)

\* 0.01 = 0x147AE147AE147B * 2^-59
F_0_01  == Dbl(1, <<7381976, 14092861, 163>>)


(***************************************************************************)
(* Bounds of the exploration (not program constants).                      *)
(***************************************************************************)
\* The pointer is at most MaxCoord pixels from the origin, on either axis.
MaxCoord == 1

\* Wheel directions are the non-zero integers in -MaxWheel..MaxWheel.
MaxWheel == 2

\* How many callbacks outside a specification's own group a run may hold.
MaxScarce == 1

(***************************************************************************)
(* GLUT and program constants.                                             *)
(***************************************************************************)
GLUT_LEFT_BUTTON   == "left"
GLUT_MIDDLE_BUTTON == "middle"
GLUT_RIGHT_BUTTON  == "right"
GLUT_DOWN          == "down"
GLUT_UP            == "up"
GLUT_KEY_UP        == "UP"
GLUT_KEY_DOWN      == "DOWN"

\* self.mouse_button = None
NoButton == "none"

\* self.mouse_prev_pos = None
NoPos == <<>>

\* self.texture = None; glGenTextures names textures from 1
NoTexture == 0

\* movement_step = 0.5, the unit in which light_pos is counted
movement_step == 1

\* color_step = 0.1
color_step == F_0_1

\* size = 64 of the fallback texture
size == 64

Buttons     == {GLUT_LEFT_BUTTON, GLUT_MIDDLE_BUTTON, GLUT_RIGHT_BUTTON}
ButtonStates == {GLUT_DOWN, GLUT_UP}
\* "x" stands for every key no branch of keyboard names; "H" is one of them
\* in the code and is kept apart because the help text names it.
Keys        == {"w", "s", "a", "d", "q", "e", "r", "R", "g", "G", "b", "B",
                "h", "H", "x"}
\* "LEFT" stands for every special key other than Up and Down.
SpecialKeys == {GLUT_KEY_UP, GLUT_KEY_DOWN, "LEFT"}
\* the pointer positions <<x, y>> GLUT reports
Positions   == {p \in (0..MaxCoord) \X (0..MaxCoord) : p[1] = 0 \/ p[2] = 0}
WheelDirs   == (-MaxWheel..MaxWheel) \ {0}
\* What Image.open("texture.png").convert("RGB") meets: no file, a file that
\* does not decode, or an image (of some size).
TextureFiles == {[status |-> "missing", size |-> <<0, 0>>],
                 [status |-> "undecodable", size |-> <<0, 0>>],
                 [status |-> "image", size |-> <<2, 2>>]}

VARIABLES
    pc,               \* "constructed" after Scene(), "running" after init(),
                      \* "failed" had init raised
    alpha, alpha_direction,
    light_pos,        \* <<x, y, z, w>> in units of 0.5
    light_intensity,
    light_color,      \* <<r, g, b>>
    camera_distance,  \* in units of 1.0
    camera_rot_x, camera_rot_y,   \* in units of 0.5 degrees
    camera_pos,       \* <<x, y, z>>
    mouse_button, mouse_prev_pos, show_help, texture,
    gl_texture_2d,    \* whether GL_TEXTURE_2D is enabled
    gl_tex_image,     \* what glTexImage2D uploaded
    gl_light0,        \* what update_light gave GL_LIGHT0
    frame,            \* what the last display drew
    redisplay,        \* the window is marked for redisplay (glutPostRedisplay)
    held,             \* environment: the buttons physically held down
    last,             \* the last callback that ran, with its key or button
    budget            \* callbacks spent outside the specification's group

scene == <<alpha, alpha_direction, light_pos, light_intensity, light_color,
           camera_distance, camera_rot_x, camera_rot_y, camera_pos,
           mouse_button, mouse_prev_pos, show_help, texture>>

gl == <<gl_texture_2d, gl_tex_image, gl_light0, frame, redisplay>>

vars == <<pc, scene, gl, held, last, budget>>

(***************************************************************************)
(* Scene.__init__ and the OpenGL defaults.                                 *)
(***************************************************************************)
Init ==
    /\ pc = "constructed"
    /\ alpha = F_0_9
    /\ alpha_direction = FNeg(F_0_001)
    /\ light_pos = <<0, 4, 4, 2>>
    /\ light_intensity = F_1_0
    /\ light_color = <<F_1_0, F_1_0, F_1_0>>
    /\ camera_distance = 5
    /\ camera_rot_x = 60
    /\ camera_rot_y = 0
    /\ camera_pos = <<F_0_0, F_0_0, F_0_0>>
    /\ mouse_button = NoButton
    /\ mouse_prev_pos = NoPos
    /\ show_help = TRUE
    /\ texture = NoTexture
    /\ gl_texture_2d = FALSE
    /\ gl_tex_image = [width |-> 0, height |-> 0, pixels |-> "none"]
    /\ gl_light0 = [position |-> <<0, 0, 2, 0>>,
                    color |-> <<F_1_0, F_1_0, F_1_0>>, intensity |-> F_1_0]
    /\ frame = [draws |-> <<>>, help |-> FALSE]
    /\ redisplay = TRUE
    /\ held = {}
    /\ last = [cb |-> "__init__", arg |-> <<>>]
    /\ budget = 0

(***************************************************************************)
(* load_texture and init.                                                  *)
(***************************************************************************)
\* The fallback img_data: row i*size+j holds [c, c, c], c = 255 when i + j
\* is even and 0 otherwise, for i, j in range(sz).
checkerboard(sz) ==
    [k \in 0..(sz * sz - 1) |->
        LET i == k \div sz
            j == k % sz
            c == IF (i + j) % 2 = 0 THEN 255 ELSE 0
        IN  <<c, c, c>>]

\* load_texture without its except clause: the exception leaves init
load_texture_uncaught(file) ==
    LET raised == file.status # "image"
    IN  [texture |-> 1,
         image |-> [width |-> file.size[1], height |-> file.size[2],
                    pixels |-> "file"],
         error |-> raised]

\* The image and data load_texture uploads, and the id it returns.  A file
\* that cannot be opened or decoded raises inside the try block.
load_texture(file) ==
    LET raised == file.status # "image"
        image  == IF raised
                  THEN [width |-> size, height |-> size, pixels |-> "checkerboard"]
                  ELSE [width |-> file.size[1], height |-> file.size[2],
                        pixels |-> "file"]
    IN  [texture |-> 1, image |-> image, error |-> FALSE]

\* img_data as glTexImage2D reads it: pixel (i, j) of an image of the given
\* width is row i * width + j
tex_pixel(image, data, i, j) == data[i * image.width + j]

init(file) ==
    /\ pc = "constructed"
    /\ LET r == load_texture(file)
       IN  /\ pc' = IF r.error THEN "failed" ELSE "running"
           /\ texture' = IF r.error THEN texture ELSE r.texture
           /\ gl_tex_image' = IF r.error THEN gl_tex_image ELSE r.image
    /\ gl_texture_2d' = TRUE
    /\ last' = [cb |-> "init", arg |-> <<file.status>>]
    /\ UNCHANGED <<alpha, alpha_direction, light_pos, light_intensity,
                   light_color, camera_distance, camera_rot_x, camera_rot_y,
                   camera_pos, mouse_button, mouse_prev_pos, show_help,
                   gl_light0, frame, redisplay>>

(***************************************************************************)
(* Drawing.  A draw function takes the OpenGL state g that matters to it,  *)
(* [tex |-> GL_TEXTURE_2D enabled, draws |-> the objects drawn so far],    *)
(* and returns it changed.  An object drawn is recorded with the texture   *)
(* switch and the material alpha it was drawn under.                       *)
(***************************************************************************)
Drawn(g, obj, a) ==
    [g EXCEPT !.draws = Append(@, [obj |-> obj, tex |-> g.tex, alpha |-> a])]

\* lighting is off for the marker: glColor3f gives alpha 1.0
draw_light_source(g) == Drawn(g, "light_source", F_1_0)

\* the gold material has alpha 1.0
draw_sphere(g) == Drawn(g, "sphere", F_1_0)

\* glEnable(GL_TEXTURE_2D) ... glDisable(GL_TEXTURE_2D); no material is
\* set, so the sphere's stays
draw_torus(g) ==
    LET on == [g EXCEPT !.tex = TRUE]
    IN  [Drawn(on, "torus", F_1_0) EXCEPT !.tex = FALSE]

draw_cube(g, a) == Drawn(g, "cube", a)

\* glLightfv(GL_LIGHT0, ...): the position, and the diffuse and specular
\* colour c * light_intensity, kept as its two factors
update_light(pos, intensity, color) ==
    [position |-> pos, color |-> color, intensity |-> intensity]

\* self.alpha += self.alpha_direction
alpha_step(a, d) == FAdd(a, d)

\* if self.alpha <= 0.5 or self.alpha >= 0.9: self.alpha_direction *= -1
alpha_bounce(a, d) ==
    IF FLeq(a, F_0_5) \/ FLeq(F_0_9, a) THEN FNeg(d) ELSE d

display ==
    /\ pc = "running"
    /\ gl_light0' = update_light(light_pos, light_intensity, light_color)
    /\ LET g0 == [tex |-> gl_texture_2d, draws |-> <<>>]
           g1 == draw_light_source(g0)
           g2 == draw_sphere(g1)
           g3 == draw_torus(g2)
           g4 == draw_cube(g3, alpha)
       IN  /\ gl_texture_2d' = g4.tex
           /\ frame' = [draws |-> g4.draws, help |-> show_help]
    /\ alpha' = alpha_step(alpha, alpha_direction)
    /\ alpha_direction' = alpha_bounce(alpha', alpha_direction)
    /\ last' = [cb |-> "display", arg |-> <<>>]
    /\ UNCHANGED <<pc, light_pos, light_intensity, light_color,
                   camera_distance, camera_rot_x, camera_rot_y, camera_pos,
                   mouse_button, mouse_prev_pos, show_help, texture,
                   gl_tex_image>>

(***************************************************************************)
(* Input handling.                                                         *)
(***************************************************************************)
\* the keys a branch of keyboard names
keyboard_keys == {"w", "s", "a", "d", "q", "e", "r", "R", "g", "G", "b", "B", "h"}

\* keyboard with 'w' and 's' acting on the wrong component of light_pos
keyboard_light_pos_wrong_axis(key, p) ==
    IF key = "w" THEN [p EXCEPT ![4] = @ - movement_step]
    ELSE IF key = "s" THEN [p EXCEPT ![4] = @ + movement_step]
    ELSE IF key = "a" THEN [p EXCEPT ![1] = @ - movement_step]
    ELSE IF key = "d" THEN [p EXCEPT ![1] = @ + movement_step]
    ELSE p

keyboard_light_pos(key, p) ==
    IF key = "w" THEN [p EXCEPT ![3] = @ - movement_step]
    ELSE IF key = "s" THEN [p EXCEPT ![3] = @ + movement_step]
    ELSE IF key = "a" THEN [p EXCEPT ![1] = @ - movement_step]
    ELSE IF key = "d" THEN [p EXCEPT ![1] = @ + movement_step]
    ELSE p

\* keyboard with 'e' subtracting without max(0.0, ...)
keyboard_light_intensity_unclamped(key, v) ==
    IF key = "q" THEN FMin(F_1_0, FAdd(v, color_step))
    ELSE IF key = "e" THEN FSub(v, color_step)
    ELSE v

keyboard_light_intensity(key, v) ==
    IF key = "q" THEN FMin(F_1_0, FAdd(v, color_step))
    ELSE IF key = "e" THEN FMax(F_0_0, FSub(v, color_step))
    ELSE v

keyboard_light_color(key, c) ==
    IF key = "r" THEN [c EXCEPT ![1] = FMin(F_1_0, FAdd(@, color_step))]
    ELSE IF key = "R" THEN [c EXCEPT ![1] = FMax(F_0_0, FSub(@, color_step))]
    ELSE IF key = "g" THEN [c EXCEPT ![2] = FMin(F_1_0, FAdd(@, color_step))]
    ELSE IF key = "G" THEN [c EXCEPT ![2] = FMax(F_0_0, FSub(@, color_step))]
    ELSE IF key = "b" THEN [c EXCEPT ![3] = FMin(F_1_0, FAdd(@, color_step))]
    ELSE IF key = "B" THEN [c EXCEPT ![3] = FMax(F_0_0, FSub(@, color_step))]
    ELSE c

keyboard_show_help(key, h) == IF key = "h" THEN ~h ELSE h

keyboard(key) ==
    /\ pc = "running"
    /\ light_pos' = keyboard_light_pos(key, light_pos)
    /\ light_intensity' = keyboard_light_intensity(key, light_intensity)
    /\ light_color' = keyboard_light_color(key, light_color)
    /\ show_help' = keyboard_show_help(key, show_help)
    /\ LET changed == key \in keyboard_keys
       IN  /\ gl_light0' = IF changed
                           THEN update_light(light_pos', light_intensity',
                                             light_color')
                           ELSE gl_light0
           /\ redisplay' = IF changed THEN TRUE ELSE redisplay
    /\ last' = [cb |-> "keyboard", arg |-> <<key>>]
    /\ UNCHANGED <<pc, alpha, alpha_direction, camera_distance, camera_rot_x,
                   camera_rot_y, camera_pos, mouse_button, mouse_prev_pos,
                   texture, gl_texture_2d, gl_tex_image, frame>>

\* glutKeyboardUpFunc(lambda *args: glut.glutPostRedisplay())
keyboard_up ==
    /\ pc = "running"
    /\ redisplay' = TRUE
    /\ last' = [cb |-> "keyboard_up", arg |-> <<>>]
    /\ UNCHANGED <<pc, scene, gl_texture_2d, gl_tex_image, gl_light0, frame>>

special_light_pos(key, p) ==
    IF key = GLUT_KEY_UP THEN [p EXCEPT ![2] = @ + movement_step]
    ELSE IF key = GLUT_KEY_DOWN THEN [p EXCEPT ![2] = @ - movement_step]
    ELSE p

special(key) ==
    /\ pc = "running"
    /\ light_pos' = special_light_pos(key, light_pos)
    /\ redisplay' = TRUE
    /\ last' = [cb |-> "special", arg |-> <<key>>]
    /\ UNCHANGED <<pc, alpha, alpha_direction, light_intensity, light_color,
                   camera_distance, camera_rot_x, camera_rot_y, camera_pos,
                   mouse_button, mouse_prev_pos, show_help, texture,
                   gl_texture_2d, gl_tex_image, gl_light0, frame>>

mouse_button_after(button, state) ==
    IF state = GLUT_DOWN THEN button ELSE NoButton

mouse(button, state, x, y) ==
    /\ pc = "running"
    /\ mouse_button' = mouse_button_after(button, state)
    /\ mouse_prev_pos' = IF state = GLUT_DOWN THEN <<x, y>> ELSE mouse_prev_pos
    /\ last' = [cb |-> "mouse", arg |-> <<button, state>>]
    /\ UNCHANGED <<pc, alpha, alpha_direction, light_pos, light_intensity,
                   light_color, camera_distance, camera_rot_x, camera_rot_y,
                   camera_pos, show_help, texture, gl>>

motion(x, y) ==
    /\ pc = "running"
    /\ IF mouse_prev_pos = NoPos
       THEN /\ mouse_prev_pos' = <<x, y>>
            /\ UNCHANGED <<camera_rot_x, camera_rot_y, camera_pos, redisplay>>
       ELSE LET dx == x - mouse_prev_pos[1]
                dy == y - mouse_prev_pos[2]
            IN  /\ IF mouse_button = GLUT_LEFT_BUTTON
                   THEN /\ camera_rot_y' = camera_rot_y + dx
                        /\ camera_rot_x' = camera_rot_x + dy
                        /\ UNCHANGED camera_pos
                   ELSE IF mouse_button = GLUT_MIDDLE_BUTTON
                   THEN /\ camera_pos' =
                              [camera_pos EXCEPT
                                 ![1] = FAdd(@, FMulInt(dx, F_0_01)),
                                 ![2] = FSub(@, FMulInt(dy, F_0_01))]
                        /\ UNCHANGED <<camera_rot_x, camera_rot_y>>
                   ELSE UNCHANGED <<camera_rot_x, camera_rot_y, camera_pos>>
                /\ mouse_prev_pos' = <<x, y>>
                /\ redisplay' = TRUE
    /\ last' = [cb |-> "motion", arg |-> <<>>]
    /\ UNCHANGED <<pc, alpha, alpha_direction, light_pos, light_intensity,
                   light_color, camera_distance, mouse_button, show_help,
                   texture, gl_texture_2d, gl_tex_image, gl_light0, frame>>

\* mouse_wheel without min(20.0, ...)
wheel_zoom_no_upper(distance, direction) ==
    LET d == distance - direction
    IN  IF d > 2 THEN d ELSE 2

\* max(2.0, min(20.0, camera_distance - direction))
wheel_zoom(distance, direction) ==
    LET d == distance - direction
        m == IF d < 20 THEN d ELSE 20
    IN  IF m > 2 THEN m ELSE 2

mouse_wheel(wheel, direction, x, y) ==
    /\ pc = "running"
    /\ camera_distance' = wheel_zoom(camera_distance, direction)
    /\ redisplay' = TRUE
    /\ last' = [cb |-> "mouse_wheel", arg |-> <<>>]
    /\ UNCHANGED <<pc, alpha, alpha_direction, light_pos, light_intensity,
                   light_color, camera_rot_x, camera_rot_y, camera_pos,
                   mouse_button, mouse_prev_pos, show_help, texture,
                   gl_texture_2d, gl_tex_image, gl_light0, frame>>

(***************************************************************************)
(* main: the callbacks GLUT delivers once the main loop runs.              *)
(***************************************************************************)
\* scene.init(), then the callbacks are registered and the loop starts
EvInit == \E file \in TextureFiles : init(file) /\ UNCHANGED held

\* glutDisplayFunc(scene.display): run for a window marked for redisplay,
\* which the run unmarks
EvDisplay == redisplay /\ display /\ redisplay' = FALSE /\ UNCHANGED held

\* glutIdleFunc(scene.display): run whenever no event is waiting
EvIdle == display /\ UNCHANGED <<redisplay, held>>

EvKeyboard(K) == \E key \in K : keyboard(key) /\ UNCHANGED held

EvKeyboardUp == keyboard_up /\ UNCHANGED held

EvSpecial == \E key \in SpecialKeys : special(key) /\ UNCHANGED held

\* glutMouseFunc: a button that was up goes down, or one that was down
\* goes up
EvMouse ==
    \E button \in Buttons, state \in ButtonStates, p \in Positions :
        /\ IF state = GLUT_DOWN THEN button \notin held ELSE button \in held
        /\ held' = IF state = GLUT_DOWN THEN held \cup {button}
                   ELSE held \ {button}
        /\ mouse(button, state, p[1], p[2])

\* glutMotionFunc: the pointer moves while a button is down
EvMotion ==
    \E p \in Positions :
        held # {} /\ motion(p[1], p[2]) /\ UNCHANGED held

EvWheel ==
    \E direction \in WheelDirs, p \in Positions :
        mouse_wheel(0, direction, p[1], p[2]) /\ UNCHANGED held

\* A callback outside the group a specification explores without limit
Scarce == budget < MaxScarce /\ budget' = budget + 1

(***************************************************************************)
(* Spec: the light's intensity keys without limit, and pointer motion      *)
(* whenever a button is down; every other callback within the budget.      *)
(***************************************************************************)
FreeKeys == {"q", "e"}

Next ==
    \/ EvInit /\ UNCHANGED budget
    \/ EvKeyboard(FreeKeys) /\ UNCHANGED budget
    \/ Scarce /\ EvKeyboard(Keys \ FreeKeys)
    \/ Scarce /\ EvKeyboardUp
    \/ Scarce /\ EvSpecial
    \/ Scarce /\ EvMouse
    \/ EvMotion /\ UNCHANGED budget
    \/ Scarce /\ EvWheel
    \/ Scarce /\ EvDisplay
    \/ Scarce /\ EvIdle

Spec == Init /\ [][Next]_vars

(***************************************************************************)
(* SpecWheel: the mouse wheel without limit.                               *)
(***************************************************************************)
NextWheel ==
    \/ EvInit /\ UNCHANGED budget
    \/ EvWheel /\ UNCHANGED budget
    \/ EvMotion /\ UNCHANGED budget
    \/ Scarce /\ EvKeyboard(Keys)
    \/ Scarce /\ EvKeyboardUp
    \/ Scarce /\ EvSpecial
    \/ Scarce /\ EvMouse
    \/ Scarce /\ EvDisplay
    \/ Scarce /\ EvIdle

SpecWheel == Init /\ [][NextWheel]_vars

(***************************************************************************)
(* SpecMouse: the mouse buttons without limit.                             *)
(***************************************************************************)
NextMouse ==
    \/ EvInit /\ UNCHANGED budget
    \/ EvMouse /\ UNCHANGED budget
    \/ Scarce /\ EvMotion
    \/ Scarce /\ EvWheel
    \/ Scarce /\ EvKeyboard(Keys)
    \/ Scarce /\ EvKeyboardUp
    \/ Scarce /\ EvSpecial
    \/ Scarce /\ EvDisplay
    \/ Scarce /\ EvIdle

SpecMouse == Init /\ [][NextMouse]_vars

(***************************************************************************)
(* SpecAnim: the frames without limit.                                     *)
(***************************************************************************)
Frame == EvIdle /\ UNCHANGED budget

NextAnim ==
    \/ EvInit /\ UNCHANGED budget
    \/ Frame
    \/ EvDisplay /\ UNCHANGED budget
    \/ EvMotion /\ UNCHANGED budget
    \/ Scarce /\ EvKeyboard(Keys)
    \/ Scarce /\ EvKeyboardUp
    \/ Scarce /\ EvSpecial
    \/ Scarce /\ EvMouse
    \/ Scarce /\ EvWheel

SpecAnim == Init /\ [][NextAnim]_vars

(***************************************************************************)
(* SpecBounce: repeated display calls and nothing else, the main loop      *)
(* being left to itself.  scene.init() runs before the loop starts, and    *)
(* GLUT runs the idle callback, which is scene.display, whenever no event  *)
(* is waiting: a frame is always drawn eventually.                         *)
(***************************************************************************)
Start == EvInit /\ UNCHANGED budget

NextBounce ==
    \/ Start
    \/ Frame
    \/ EvDisplay /\ UNCHANGED budget

SpecBounce == Init /\ [][NextBounce]_vars /\ WF_vars(Start) /\ WF_vars(Frame)

(***************************************************************************)
(* Properties.                                                             *)
(***************************************************************************)
InRange(lo, x, hi) == FLeq(lo, x) /\ FLeq(x, hi)

CubeDraws == {k \in DOMAIN frame.draws : frame.draws[k].obj = "cube"}

\* C1: the cube transparency stays between 0.5 and 0.9: in every reachable
\* state 0.5 <= alpha <= 0.9, and every alpha draw_cube was given is in
\* that range.
C1_AlphaBetweenBounds ==
    /\ InRange(F_0_5, alpha, F_0_9)
    /\ \A k \in CubeDraws : InRange(F_0_5, frame.draws[k].alpha, F_0_9)

\* C2: the light intensity is in [0, 1] in every reachable state, whatever
\* callbacks ran, and 'q' at 1.0 and 'e' at 0.0 leave it unchanged.
C2_IntensityBounded ==
    /\ [](InRange(F_0_0, light_intensity, F_1_0))
    /\ [][/\ (last'.cb = "keyboard" /\ last'.arg = <<"q">>
                 /\ light_intensity = F_1_0) => light_intensity' = F_1_0
          /\ (last'.cb = "keyboard" /\ last'.arg = <<"e">>
                 /\ light_intensity = F_0_0) => light_intensity' = F_0_0]_vars

\* C2 witness: 'e' was pressed until the intensity was clamped at 0.0, with
\* callbacks of other kinds in between.
C2_Witness ==
    /\ last.cb = "keyboard" /\ last.arg = <<"e">>
    /\ light_intensity = F_0_0
    /\ budget = MaxScarce

\* C3: the camera distance is in [2, 20] in every reachable state, whatever
\* callbacks ran, and a wheel event changes no field of the scene other than
\* camera_distance.
C3_DistanceBounded ==
    /\ [](2 <= camera_distance /\ camera_distance <= 20)
    /\ [][last'.cb = "mouse_wheel" =>
            UNCHANGED <<alpha, alpha_direction, light_pos, light_intensity,
                        light_color, camera_rot_x, camera_rot_y, camera_pos,
                        mouse_button, mouse_prev_pos, show_help, texture>>]_vars

\* C3 witness: a wheel event has just left the distance at the upper clamp,
\* after a callback of another kind.
C3_Witness ==
    last.cb = "mouse_wheel" /\ camera_distance = 20 /\ budget = MaxScarce

\* C4: a keyboard event whose key is 'H' negates show_help.
C4_UpperHTogglesHelp ==
    [][(last'.cb = "keyboard" /\ last'.arg = <<"H">>) =>
          show_help' = ~show_help]_vars

\* the fallback texture as load_texture fills it
Checkerboard == checkerboard(size)

\* C5: init never fails: afterwards the program runs with the texture field
\* set, and when the file could not be opened or decoded the texture
\* uploaded is the 64x64 checkerboard, pixel (i, j) white when i + j is even
\* and black otherwise.
C5_TextureAlwaysLoaded ==
    /\ pc # "failed"
    /\ pc = "running" => texture # NoTexture
    /\ (last.cb = "init" /\ last.arg # <<"image">>) =>
          /\ gl_tex_image = [width |-> 64, height |-> 64,
                             pixels |-> "checkerboard"]
          /\ \A i \in 0..63, j \in 0..63 :
                tex_pixel(gl_tex_image, Checkerboard, i, j) =
                   IF (i + j) % 2 = 0 THEN <<255, 255, 255>> ELSE <<0, 0, 0>>

\* C5 witness: init has just run with no file to open.
C5_Witness ==
    /\ last.cb = "init" /\ last.arg = <<"missing">>
    /\ pc = "running" /\ texture # NoTexture

\* the pointer displacement of a motion event
MotionDx == mouse_prev_pos'[1] - mouse_prev_pos[1]

MotionDy == mouse_prev_pos'[2] - mouse_prev_pos[2]

\* C6: whenever the left button is physically down a motion event adds
\* 0.5*dx to camera_rot_y and 0.5*dy to camera_rot_x, and whenever the middle
\* button is down it adds 0.01*dx to camera_pos[0] and subtracts 0.01*dy from
\* camera_pos[1], for every interleaving of presses and releases.
C6_DragFollowsHeldButton ==
    [][(last'.cb = "motion" /\ mouse_prev_pos # NoPos) =>
          /\ GLUT_LEFT_BUTTON \in held =>
                /\ camera_rot_y' = camera_rot_y + MotionDx
                /\ camera_rot_x' = camera_rot_x + MotionDy
          /\ GLUT_MIDDLE_BUTTON \in held =>
                /\ camera_pos'[1] = FAdd(camera_pos[1], FMulInt(MotionDx, F_0_01))
                /\ camera_pos'[2] = FSub(camera_pos[2], FMulInt(MotionDy, F_0_01))
       ]_vars

\* what a key does to light_pos according to the help text: WASD move the
\* light horizontally, the arrow keys vertically, by 0.5
KeyMove(cb, key) ==
    IF cb = "keyboard" /\ key = "w" THEN <<0, 0, -1, 0>>
    ELSE IF cb = "keyboard" /\ key = "s" THEN <<0, 0, 1, 0>>
    ELSE IF cb = "keyboard" /\ key = "a" THEN <<-1, 0, 0, 0>>
    ELSE IF cb = "keyboard" /\ key = "d" THEN <<1, 0, 0, 0>>
    ELSE IF cb = "special" /\ key = GLUT_KEY_UP THEN <<0, 1, 0, 0>>
    ELSE IF cb = "special" /\ key = GLUT_KEY_DOWN THEN <<0, -1, 0, 0>>
    ELSE <<0, 0, 0, 0>>

\* C7: 'w'/'s' change only light_pos[2] by -0.5/+0.5, 'a'/'d' only
\* light_pos[0] by -0.5/+0.5, Up/Down only light_pos[1] by +0.5/-0.5; the
\* homogeneous flag light_pos[3] is 1.0 in every reachable state; no key
\* changes a camera field, alpha or alpha_direction; an unrecognised key
\* changes no field.
C7_KeysMoveOnlyTheLight ==
    /\ [](light_pos[4] = 2)
    /\ [][last'.cb \in {"keyboard", "special"} =>
            LET key == last'.arg[1]
                mv  == KeyMove(last'.cb, key)
            IN  /\ \A k \in 1..4 : light_pos'[k] = light_pos[k] + mv[k]
                /\ UNCHANGED <<alpha, alpha_direction, camera_distance,
                               camera_rot_x, camera_rot_y, camera_pos,
                               mouse_button, mouse_prev_pos, texture>>
                /\ key \in {"w", "s", "a", "d", GLUT_KEY_UP, GLUT_KEY_DOWN}
                      => UNCHANGED <<light_intensity, light_color, show_help>>
                /\ (last'.cb = "keyboard" /\ key \notin keyboard_keys)
                      => UNCHANGED scene
                /\ (last'.cb = "special"
                      /\ key \notin {GLUT_KEY_UP, GLUT_KEY_DOWN})
                      => UNCHANGED scene]_vars

\* C7 witness: 'w' has just moved the light from z = 2.0 to z = 1.5.
C7_Witness ==
    /\ last.cb = "keyboard" /\ last.arg = <<"w">>
    /\ light_pos = <<0, 4, 3, 2>>

\* a frame in which alpha_direction reversed
Reversed == alpha_direction' # alpha_direction

\* C8: a frame moves alpha by one step of 0.001; alpha_direction reverses
\* only in a frame whose updated alpha is <= 0.5 or >= 0.9; the frame after
\* a reversal leaves alpha strictly inside (0.5, 0.9), so the direction
\* never reverses in two consecutive frames; and alpha reaches the lower
\* bound 0.5 and the upper bound 0.9 each infinitely often.
C8_BouncesForever ==
    /\ [][last'.cb = "display" =>
            /\ alpha' = FAdd(alpha, alpha_direction)
            /\ alpha_direction \in {F_0_001, FNeg(F_0_001)}
            /\ Reversed => (FLeq(alpha', F_0_5) \/ FLeq(F_0_9, alpha'))
            /\ (FLeq(alpha, F_0_5) \/ FLeq(F_0_9, alpha)) =>
                  /\ FLess(F_0_5, alpha') /\ FLess(alpha', F_0_9)
                  /\ ~Reversed]_vars
    /\ []<>(alpha = F_0_5)
    /\ []<>(alpha = F_0_9)

\* C9: in every frame GL_TEXTURE_2D is enabled while the torus is drawn and
\* disabled while the light-source marker, the sphere and the cube are.
C9_OnlyTorusTextured ==
    \A k \in DOMAIN frame.draws :
        frame.draws[k].tex <=> frame.draws[k].obj = "torus"

=============================================================================
